---- MODULE Spec2Model ----
(***************************************************************************)
(* Mython interpreter: the runtime object model (runtime.cpp), the AST     *)
(* evaluator (statement.cpp/.h) and the indentation-sensitive lexer        *)
(* (lexer.cpp/.h), as state machines.                                      *)
(***************************************************************************)
EXTENDS Integers, Sequences, FiniteSets, TLC

VARIABLES
    classes,    \* the runtime::Class objects: name -> [parent, methods]
    globals,    \* the top-level Closure the driver executes statements in
    heap,       \* ClassInstance objects, one per NewInstance node: id -> [cls, fields]
    out,        \* the text written to context.GetOutputStream()
    last,       \* outcome of the last top-level Execute / lookup
    calls,      \* ghost: the ClassInstance::Call / __str__ body runs of the last operation
    steps,      \* number of top-level operations done
    tokens_,    \* Lexer::tokens_
    indent_count, \* Lexer::Lexer local indent_count
    lines_read, \* number of getline calls that produced a line
    temp_string, \* Lexer::Lexer local temp_string: the line getline read last
    lex_done,   \* the Lexer constructor has returned
    current_token_, \* Lexer::current_token_: index (from 0) of the current token
    lex_last    \* outcome of the last NextToken / Expect / ExpectNext call

vars == <<classes, globals, heap, out, last, calls, steps,
          tokens_, indent_count, lines_read, temp_string, lex_done,
          current_token_, lex_last>>

evalVars == <<classes, globals, heap, out, last, calls, steps>>
cursorVars == <<current_token_, lex_last>>
lexVars == <<tokens_, indent_count, lines_read, temp_string, lex_done, cursorVars>>

(***************************************************************************)
(* Runtime values behind an ObjectHolder.  One record shape for all of     *)
(* them: t is the dynamic type, n/s/b the payload.                         *)
(***************************************************************************)
NoneV == [t |-> "None", n |-> 0, s |-> "", b |-> FALSE]
Number(v) == [t |-> "Number", n |-> v, s |-> "", b |-> FALSE]
String(v) == [t |-> "String", n |-> 0, s |-> v, b |-> FALSE]
Bool(v) == [t |-> "Bool", n |-> 0, s |-> "", b |-> v]
ClassV(name) == [t |-> "Class", n |-> 0, s |-> name, b |-> FALSE]
InstanceV(id) == [t |-> "ClassInstance", n |-> id, s |-> "", b |-> FALSE]

IsNone(v) == v.t = "None"

(***************************************************************************)
(* AST nodes (statement.h).  One record shape: op is the node class, the   *)
(* other fields its members.                                               *)
(***************************************************************************)
Node(op, n, s, b, names, kids) ==
    [op |-> op, n |-> n, s |-> s, b |-> b, names |-> names, kids |-> kids]

NumericConst(v) == Node("NumericConst", v, "", FALSE, <<>>, <<>>)
StringConst(v) == Node("StringConst", 0, v, FALSE, <<>>, <<>>)
BoolConst(v) == Node("BoolConst", 0, "", v, <<>>, <<>>)
NoneStmt == Node("None", 0, "", FALSE, <<>>, <<>>)
VariableValue(dotted_ids) == Node("VariableValue", 0, "", FALSE, dotted_ids, <<>>)
Assignment(var, rv) == Node("Assignment", 0, var, FALSE, <<>>, <<rv>>)
FieldAssignment(object, field_name, rv) ==
    Node("FieldAssignment", 0, field_name, FALSE, object, <<rv>>)
PrintVariable(name) == Node("PrintStmt", 0, name, FALSE, <<>>, <<>>)
PrintArgs(args) == Node("PrintStmt", 0, "", FALSE, <<>>, args)
MethodCall(object, method, args) ==
    Node("MethodCall", 0, method, FALSE, <<>>, <<object>> \o args)
Stringify(arg) == Node("Stringify", 0, "", FALSE, <<>>, <<arg>>)
Add(l, r) == Node("Add", 0, "", FALSE, <<>>, <<l, r>>)
Sub(l, r) == Node("Sub", 0, "", FALSE, <<>>, <<l, r>>)
Mult(l, r) == Node("Mult", 0, "", FALSE, <<>>, <<l, r>>)
Div(l, r) == Node("Div", 0, "", FALSE, <<>>, <<l, r>>)
Or(l, r) == Node("Or", 0, "", FALSE, <<>>, <<l, r>>)
And(l, r) == Node("And", 0, "", FALSE, <<>>, <<l, r>>)
Not(a) == Node("Not", 0, "", FALSE, <<>>, <<a>>)
Comparison(cmp, l, r) == Node("Comparison", 0, cmp, FALSE, <<>>, <<l, r>>)
Compound(stmts) == Node("Compound", 0, "", FALSE, <<>>, stmts)
Return(e) == Node("Return", 0, "", FALSE, <<>>, <<e>>)
ClassDefinition(cls) == Node("ClassDefinition", 0, cls, FALSE, <<>>, <<>>)
IfElse(c, if_body, else_body) == Node("IfElse", 0, "", FALSE, <<>>, <<c, if_body, else_body>>)
IfOnly(c, if_body) == Node("IfElse", 0, "", FALSE, <<>>, <<c, if_body>>)
\* a NewInstance node owns its ClassInstance member: id names that member
NewInstance(id, args) == Node("NewInstance", id, "", FALSE, <<>>, args)
MethodBody(body) == Node("MethodBody", 0, "", FALSE, <<>>, <<body>>)

(***************************************************************************)
(* Class and method lookup (runtime.cpp).                                  *)
(***************************************************************************)
Method(name, formal_params, body) ==
    [name |-> name, formal_params |-> formal_params, body |-> body]

NoMethod == [found |-> FALSE, owner |-> "", method |-> Method("", <<>>, NoneStmt)]

\* std::map::insert keeps the first method of each name
RECURSIVE InsertMethods(_, _)
InsertMethods(methods, acc) ==
    IF methods = <<>> THEN acc
    ELSE LET m == Head(methods)
         IN InsertMethods(Tail(methods),
                          IF m.name \in DOMAIN acc THEN acc ELSE acc @@ (m.name :> m))

EmptyMap == [x \in {} |-> NoneV]

\* Class::Class; parent "" is the null parent pointer
Class(methods, parent) ==
    [parent_ |-> parent, methods_ |-> InsertMethods(methods, [x \in {} |-> Method("", <<>>, NoneStmt)])]

\* a lookup that lets the farthest ancestor's definition win
GetMethodParentFirst(table, cname, name, fuel) ==
    LET chain[i \in 0..fuel] ==
            IF i = 0 THEN <<cname>>
            ELSE IF table[chain[i-1][Len(chain[i-1])]].parent_ = "" THEN chain[i-1]
                 ELSE Append(chain[i-1], table[chain[i-1][Len(chain[i-1])]].parent_)
        full == chain[fuel]
        hits == {i \in 1..Len(full) : name \in DOMAIN table[full[i]].methods_}
    IN IF hits = {} THEN NoMethod
       ELSE LET top == CHOOSE i \in hits : \A j \in hits : j <= i
            IN [found |-> TRUE, owner |-> full[top], method |-> table[full[top]].methods_[name]]

RECURSIVE GetMethodIn(_, _, _, _)
\* Class::GetMethod on the class named cname of the class table `table`;
\* fuel bounds the walk (a parent chain is finite)
GetMethodIn(table, cname, name, fuel) ==
    IF name \in DOMAIN table[cname].methods_
    THEN [found |-> TRUE, owner |-> cname, method |-> table[cname].methods_[name]]
    ELSE IF table[cname].parent_ # "" /\ fuel > 0
         THEN GetMethodIn(table, table[cname].parent_, name, fuel - 1)
         ELSE NoMethod

GetMethod(cname, name) == GetMethodIn(classes, cname, name, Cardinality(DOMAIN classes))

\* a HasMethod that forgets the formal-parameter count
HasMethodAnyArity(cname, method, argument_count) == GetMethod(cname, method).found

\* ClassInstance::HasMethod
HasMethod(cname, method, argument_count) ==
    LET ptr == GetMethod(cname, method)
    IN ptr.found /\ Len(ptr.method.formal_params) = argument_count

(***************************************************************************)
(* Evaluator state threaded through Execute: the closures a Closure& can   *)
(* refer to (the driver's closure, the local closure of a running Call,    *)
(* the fields_ of an instance), the output stream, and ghost records.      *)
(***************************************************************************)
GlobalRef == [kind |-> "globals", i |-> 0]
FrameRef(i) == [kind |-> "frame", i |-> i]
FieldsRef(id) == [kind |-> "fields", i |-> id]

Cl(st, ref) ==
    CASE ref.kind = "globals" -> st.globals
      [] ref.kind = "frame" -> st.frames[ref.i]
      [] ref.kind = "fields" -> st.heap[ref.i].fields_

MapSet(m, key, v) == [x \in (DOMAIN m) \cup {key} |-> IF x = key THEN v ELSE m[x]]

\* closure[name] = v through a Closure&
Bind(st, ref, name, v) ==
    CASE ref.kind = "globals" -> [st EXCEPT !.globals = MapSet(@, name, v)]
      [] ref.kind = "frame" -> [st EXCEPT !.frames[ref.i] = MapSet(@, name, v)]
      [] ref.kind = "fields" -> [st EXCEPT !.heap[ref.i].fields_ = MapSet(@, name, v)]

\* outcome of an Execute: k = "ok" (returned val), "throw" (a std::runtime_error or
\* std::out_of_range with what() = msg left the call), "ub" (a null ObjectHolder was
\* dereferenced: undefined behaviour, the process does not continue normally)
Ok(v, st) == [k |-> "ok", val |-> v, msg |-> "", st |-> st]
\* a true runtime error; ghost: remembered in st.errs
Throw(msg, st) == [k |-> "throw", val |-> NoneV, msg |-> msg,
                   st |-> [st EXCEPT !.errs = Append(@, msg)]]
\* the exception Return::Execute throws; ghost: the value it stood for in st.rets
ThrowReturn(msg, v, st) == [k |-> "throw", val |-> NoneV, msg |-> msg,
                            st |-> [st EXCEPT !.rets = Append(@, v)]]
UB(st) == [k |-> "ub", val |-> NoneV, msg |-> "", st |-> st]
\* an exception or undefined behaviour passing through a caller unchanged
Pass(r) == [k |-> r.k, val |-> NoneV, msg |-> r.msg, st |-> r.st]

\* ObjectHolder::operator-> on a TryAs<T>() result: null unless the type matches
Is(v, type) == v.t = type

\* runtime.cpp IsTrue
IsTrue(object) ==
    IF Is(object, "Bool") THEN object.b
    ELSE IF Is(object, "String") THEN Len(object.s) # 0
    ELSE IF Is(object, "Number") THEN object.n # 0
    ELSE FALSE

\* ValueObject<int>::Print: os << value
PrintNumber(v) == ToString(v)
\* ValueObject<std::string>::Print: os << value
PrintString(v) == v
\* Bool::Print
PrintBool(v) == IF v THEN "True" ELSE "False"
\* Class::Print
PrintClass(name) == "Class " \o name

\* what operator<< prints for a pointer: an address, never empty
PointerText == "0xADDR"

\* a division that rounds toward minus infinity
CDivFloor(a, b) ==
    LET x == IF a < 0 THEN -a ELSE a
        y == IF b < 0 THEN -b ELSE b
    IN IF (a < 0) = (b < 0) THEN x \div y ELSE -((x + y - 1) \div y)

\* C++ int division truncates toward zero
CDiv(a, b) ==
    LET q == (IF a < 0 THEN -a ELSE a) \div (IF b < 0 THEN -b ELSE b)
    IN IF (a < 0) = (b < 0) THEN q ELSE -q

RECURSIVE Execute(_, _, _)
RECURSIVE ExecuteArgs(_, _, _, _, _)
RECURSIVE ExecuteCompound(_, _, _, _)
RECURSIVE PrintValue(_, _)
RECURSIVE PrintArgsFrom(_, _, _, _)
RECURSIVE Call(_, _, _, _)
RECURSIVE Equal(_, _, _)
RECURSIVE Less(_, _, _)

\* the argument loops of MethodCall::Execute and NewInstance::Execute:
\* args.push_back(arg->Execute(closure, context)) for kids[i..]; val is the vector
ExecuteArgs(kids, i, ref, st, acc) ==
    IF i > Len(kids) THEN [k |-> "ok", val |-> acc, msg |-> "", st |-> st]
    ELSE LET r == Execute(kids[i], ref, st)
         IN IF r.k # "ok" THEN [k |-> r.k, val |-> acc, msg |-> r.msg, st |-> r.st]
            ELSE ExecuteArgs(kids, i + 1, ref, r.st, Append(acc, r.val))

\* the frame ClassInstance::Call builds: self, then formal_params[i] := actual_args[i]
RECURSIVE BindParams(_, _, _, _)
BindParams(closure, formal_params, actual_args, i) ==
    IF i > Len(actual_args) THEN closure
    ELSE BindParams(MapSet(closure, formal_params[i], actual_args[i]),
                    formal_params, actual_args, i + 1)

CallFrame(id, formal_params, actual_args) ==
    BindParams(("self" :> InstanceV(id)), formal_params, actual_args, 1)

\* ClassInstance::Call on instance id
Call(id, method, actual_args, st) ==
    LET method_ptr == GetMethod(st.heap[id].class_, method)
    IN IF ~method_ptr.found \/ Len(actual_args) # Len(method_ptr.method.formal_params)
       THEN Throw("Not implemented", st)
       ELSE LET closure == CallFrame(id, method_ptr.method.formal_params, actual_args)
                fi == Len(st.frames) + 1
                st1 == [st EXCEPT !.frames = Append(@, closure),
                                  !.calls = Append(@, [self |-> id, method |-> method,
                                                       owner |-> method_ptr.owner,
                                                       args |-> actual_args,
                                                       closure |-> closure])]
                r == Execute(method_ptr.method.body, FrameRef(fi), st1)
            IN \* the local Closure is destroyed when Call returns or unwinds
               [r EXCEPT !.st.frames = SubSeq(@, 1, fi - 1)]

\* Object::Print(os, context) of a non-null object: val is the text written to os
PrintValue(v, st) ==
    CASE Is(v, "Number") -> Ok(PrintNumber(v.n), st)
      [] Is(v, "String") -> Ok(PrintString(v.s), st)
      [] Is(v, "Bool") -> Ok(PrintBool(v.b), st)
      [] Is(v, "Class") -> Ok(PrintClass(v.s), st)
      [] Is(v, "ClassInstance") ->
            \* ClassInstance::Print: the __str__ body runs on fields_ itself
            LET ptr == GetMethod(st.heap[v.n].class_, "__str__")
            IN IF ~ptr.found THEN Ok("", st)
               ELSE LET st1 == [st EXCEPT !.calls =
                                   Append(@, [self |-> v.n, method |-> "__str__",
                                              owner |-> ptr.owner,
                                              args |-> <<>>,
                                              closure |-> st.heap[v.n].fields_])]
                        r == Execute(ptr.method.body, FieldsRef(v.n), st1)
                    IN IF r.k # "ok" THEN Pass(r)
                       ELSE IF IsNone(r.val) THEN UB(r.st)
                       ELSE PrintValue(r.val, r.st)
      [] OTHER -> UB(st)

\* the loop of Print::Execute over args_[i..]
PrintArgsFrom(kids, i, ref, st) ==
    IF i > Len(kids) THEN Ok(NoneV, st)
    ELSE LET r == Execute(kids[i], ref, st)
         IN IF r.k # "ok" THEN Pass(r)
            ELSE LET p == IF IsNone(r.val) THEN Ok("None", r.st) ELSE PrintValue(r.val, r.st)
                 IN IF p.k # "ok" THEN Pass(p)
                    ELSE PrintArgsFrom(kids, i + 1, ref,
                            [p.st EXCEPT !.out = @ \o p.val \o
                                (IF i < Len(kids) THEN " " ELSE "\n")])

\* a loop that goes on to the next instruction when one throws
RECURSIVE ExecuteCompoundKeepGoing(_, _, _, _)
ExecuteCompoundKeepGoing(kids, i, ref, st) ==
    IF i > Len(kids) THEN Ok(NoneV, st)
    ELSE LET r == Execute(kids[i], ref, st)
         IN IF r.k = "ub" THEN Pass(r)
            ELSE ExecuteCompoundKeepGoing(kids, i + 1, ref, r.st)

\* the loop of Compound::Execute over instructions_[i..]
ExecuteCompound(kids, i, ref, st) ==
    IF i > Len(kids) THEN Ok(NoneV, st)
    ELSE LET r == Execute(kids[i], ref, st)
         IN IF r.k # "ok" THEN Pass(r)
            ELSE ExecuteCompound(kids, i + 1, ref, r.st)

\* an Equal without the test lhs.Get() == rhs.Get()
RECURSIVE EqualNoIdentity(_, _, _)
EqualNoIdentity(lhs, rhs, st) ==
    IF Is(lhs, "Number") /\ Is(rhs, "Number") THEN Ok(Bool(lhs.n = rhs.n), st)
    ELSE IF Is(lhs, "String") /\ Is(rhs, "String") THEN Ok(Bool(lhs.s = rhs.s), st)
    ELSE IF Is(lhs, "Bool") /\ Is(rhs, "Bool") THEN Ok(Bool(lhs.b = rhs.b), st)
    ELSE IF IsNone(lhs) /\ IsNone(rhs) THEN Ok(Bool(TRUE), st)
    ELSE IF Is(lhs, "ClassInstance")
         THEN LET r == Call(lhs.n, "__eq__", <<rhs>>, st)
              IN IF r.k # "ok" THEN Pass(r) ELSE Ok(Bool(IsTrue(r.val)), r.st)
    ELSE Throw("Cannot compare objects for equality", st)

\* an outcome of a comparator: val is the bool, as Bool
Equal(lhs, rhs, st) ==
    IF Is(lhs, "Number") /\ Is(rhs, "Number") THEN Ok(Bool(lhs.n = rhs.n), st)
    ELSE IF Is(lhs, "String") /\ Is(rhs, "String") THEN Ok(Bool(lhs.s = rhs.s), st)
    ELSE IF Is(lhs, "Bool") /\ Is(rhs, "Bool") THEN Ok(Bool(lhs.b = rhs.b), st)
    ELSE IF IsNone(lhs) /\ IsNone(rhs) THEN Ok(Bool(TRUE), st)
    ELSE IF Is(lhs, "ClassInstance")
         THEN LET r == Call(lhs.n, "__eq__", <<rhs>>, st)
              IN IF r.k # "ok" THEN Pass(r) ELSE Ok(Bool(IsTrue(r.val)), r.st)
    ELSE IF lhs = rhs THEN Ok(Bool(TRUE), st)
    ELSE Throw("Cannot compare objects for equality", st)

\* std::less on std::string, for the one-character strings of the model
StringLess(a, b) ==
    LET order == <<"", "a", "b">>
        pos(x) == CHOOSE i \in 1..Len(order) : order[i] = x
    IN pos(a) < pos(b)

Less(lhs, rhs, st) ==
    IF Is(lhs, "Number") /\ Is(rhs, "Number") THEN Ok(Bool(lhs.n < rhs.n), st)
    ELSE IF Is(lhs, "String") /\ Is(rhs, "String") THEN Ok(Bool(StringLess(lhs.s, rhs.s)), st)
    ELSE IF Is(lhs, "Bool") /\ Is(rhs, "Bool") THEN Ok(Bool(~lhs.b /\ rhs.b), st)
    ELSE IF Is(lhs, "ClassInstance")
         THEN LET r == Call(lhs.n, "__lt__", <<rhs>>, st)
              IN IF r.k # "ok" THEN Pass(r) ELSE Ok(Bool(IsTrue(r.val)), r.st)
    ELSE Throw("Cannot compare objects for less", st)

NotEqual(lhs, rhs, st) ==
    LET r == Equal(lhs, rhs, st) IN IF r.k # "ok" THEN r ELSE Ok(Bool(~r.val.b), r.st)

Greater(lhs, rhs, st) ==
    LET l == Less(lhs, rhs, st)
        e == Equal(lhs, rhs, l.st)
        \* catch (const std::exception&): rethrown with another message
        rethrow(r) == IF r.k = "throw"
                      THEN [r EXCEPT !.msg = "Cannot compare objects for greater"] ELSE r
    IN IF l.k # "ok" THEN rethrow(l)
       ELSE IF l.val.b THEN Ok(Bool(FALSE), l.st)
       ELSE IF e.k # "ok" THEN rethrow(e)
       ELSE Ok(Bool(~e.val.b), e.st)

LessOrEqual(lhs, rhs, st) ==
    LET l == Less(lhs, rhs, st)
    IN IF l.k # "ok" THEN l
       ELSE IF l.val.b THEN Ok(Bool(TRUE), l.st)
       ELSE Equal(lhs, rhs, l.st)

GreaterOrEqual(lhs, rhs, st) ==
    LET l == Less(lhs, rhs, st) IN IF l.k # "ok" THEN l ELSE Ok(Bool(~l.val.b), l.st)

Comparator(cmp, lhs, rhs, st) ==
    CASE cmp = "Equal" -> Equal(lhs, rhs, st)
      [] cmp = "Less" -> Less(lhs, rhs, st)
      [] cmp = "NotEqual" -> NotEqual(lhs, rhs, st)
      [] cmp = "Greater" -> Greater(lhs, rhs, st)
      [] cmp = "LessOrEqual" -> LessOrEqual(lhs, rhs, st)
      [] cmp = "GreaterOrEqual" -> GreaterOrEqual(lhs, rhs, st)

\* the operand pair of a binary operation: lhs->Execute, then rhs->Execute
ExecutePair(kids, ref, st) == ExecuteArgs(kids, 1, ref, st, <<>>)

\* Return::Execute
ExecuteReturn(node, ref, st) ==
    LET result == Execute(node.kids[1], ref, st)
    IN IF result.k # "ok" THEN Pass(result)
       ELSE IF IsNone(result.val) THEN UB(result.st)
       ELSE LET ss == PrintValue(result.val, result.st)
            IN IF ss.k # "ok" THEN Pass(ss)
               ELSE ThrowReturn(ss.val, result.val, ss.st)

\* MethodBody::Execute
ExecuteMethodBody(node, ref, st) ==
    LET result == Execute(node.kids[1], ref, st)
    IN IF result.k = "throw" THEN Ok(String(result.msg), result.st)
       ELSE IF result.k = "ub" THEN Pass(result)
       ELSE Ok(NoneV, result.st)

\* NewInstance::Execute
ExecuteNewInstance(node, ref, st) ==
    LET args == ExecuteArgs(node.kids, 1, ref, st, <<>>)
    IN IF args.k # "ok" THEN Pass(args)
       ELSE IF HasMethod(args.st.heap[node.n].class_, "__init__", Len(args.val))
            THEN LET r == Call(node.n, "__init__", args.val, args.st)
                 IN IF r.k # "ok" THEN Pass(r) ELSE Ok(InstanceV(node.n), r.st)
            ELSE Ok(InstanceV(node.n), args.st)

\* MethodCall::Execute: the arguments, then the object, then the dispatch
ExecuteMethodCall(node, ref, st) ==
    LET args == ExecuteArgs(node.kids, 2, ref, st, <<>>)
    IN IF args.k # "ok" THEN Pass(args)
       ELSE LET object == Execute(node.kids[1], ref, args.st)
            IN IF object.k # "ok" THEN Pass(object)
               ELSE IF ~Is(object.val, "ClassInstance") THEN UB(object.st)
               ELSE Call(object.val.n, node.s, args.val, object.st)

\* VariableValue::Execute
RECURSIVE WalkFields(_, _, _, _)
WalkFields(obj, var_names, i, st) ==
    IF i > Len(var_names) THEN (IF IsNone(obj) THEN UB(st) ELSE Ok(obj, st))
    ELSE IF ~Is(obj, "ClassInstance") THEN UB(st)
    ELSE IF var_names[i] \notin DOMAIN st.heap[obj.n].fields_ THEN Throw("map::at", st)
    ELSE WalkFields(st.heap[obj.n].fields_[var_names[i]], var_names, i + 1, st)

ExecuteVariableValue(node, ref, st) ==
    IF node.names[1] \notin DOMAIN Cl(st, ref) THEN Throw("execute error", st)
    ELSE WalkFields(Cl(st, ref)[node.names[1]], node.names, 2, st)

\* FieldAssignment::Execute: the right operand of = first, then the object
ExecuteFieldAssignment(node, ref, st) ==
    LET rv == Execute(node.kids[1], ref, st)
    IN IF rv.k # "ok" THEN Pass(rv)
       ELSE LET object == ExecuteVariableValue(VariableValue(node.names), ref, rv.st)
            IN IF object.k # "ok" THEN Pass(object)
               ELSE IF ~Is(object.val, "ClassInstance") THEN UB(object.st)
               ELSE Ok(rv.val, Bind(object.st, FieldsRef(object.val.n), node.s, rv.val))

\* Print::Execute
ExecutePrint(node, ref, st) ==
    IF node.s # ""
    THEN IF node.s \notin DOMAIN Cl(st, ref) THEN Throw("map::at", st)
         ELSE IF IsNone(Cl(st, ref)[node.s]) THEN UB(st)
         ELSE LET p == PrintValue(Cl(st, ref)[node.s], st)
              IN IF p.k # "ok" THEN Pass(p)
                 ELSE Ok(NoneV, [p.st EXCEPT !.out = @ \o p.val \o "\n"])
    ELSE IF Len(node.kids) > 0 THEN PrintArgsFrom(node.kids, 1, ref, st)
    ELSE Ok(NoneV, [st EXCEPT !.out = @ \o "\n"])

\* Stringify::Execute
ExecuteStringify(node, ref, st) ==
    LET arg == Execute(node.kids[1], ref, st)
    IN IF arg.k # "ok" THEN Pass(arg)
       ELSE LET str == IF IsNone(arg.val) THEN Ok("None", arg.st)
                       ELSE PrintValue(arg.val, arg.st)
            IN IF str.k # "ok" THEN Pass(str)
               ELSE IF str.val # "" THEN Ok(String(str.val), str.st)
               ELSE Ok(String(PointerText), str.st)

\* Add::Execute
ExecuteAdd(node, ref, st) ==
    LET p == ExecutePair(node.kids, ref, st)
        lhs == p.val[1]
        rhs == p.val[2]
    IN IF p.k # "ok" THEN Pass(p)
       ELSE IF Is(lhs, "Number") /\ Is(rhs, "Number") THEN Ok(Number(lhs.n + rhs.n), p.st)
       ELSE IF Is(lhs, "String") /\ Is(rhs, "String") THEN Ok(String(lhs.s \o rhs.s), p.st)
       ELSE IF Is(lhs, "ClassInstance") /\ HasMethod(p.st.heap[lhs.n].class_, "__add__", 1)
            THEN Call(lhs.n, "__add__", <<rhs>>, p.st)
       ELSE Throw("Add Error", p.st)

\* Sub::Execute
ExecuteSub(node, ref, st) ==
    LET p == ExecutePair(node.kids, ref, st)
    IN IF p.k # "ok" THEN Pass(p)
       ELSE IF Is(p.val[1], "Number") /\ Is(p.val[2], "Number")
            THEN Ok(Number(p.val[1].n - p.val[2].n), p.st)
       ELSE Throw("Sub Error", p.st)

\* Mult::Execute
ExecuteMult(node, ref, st) ==
    LET p == ExecutePair(node.kids, ref, st)
    IN IF p.k # "ok" THEN Pass(p)
       ELSE IF Is(p.val[1], "Number") /\ Is(p.val[2], "Number")
            THEN Ok(Number(p.val[1].n * p.val[2].n), p.st)
       ELSE Throw("Mult Error", p.st)

\* Div::Execute
ExecuteDiv(node, ref, st) ==
    LET p == ExecutePair(node.kids, ref, st)
    IN IF p.k # "ok" THEN Pass(p)
       ELSE IF Is(p.val[1], "Number") /\ Is(p.val[2], "Number")
            THEN IF p.val[2].n = 0 THEN Throw("Div by 0", p.st)
                 ELSE Ok(Number(CDiv(p.val[1].n, p.val[2].n)), p.st)
       ELSE Throw("Div Error", p.st)

\* Or::Execute, And::Execute: both operands are always evaluated
ExecuteOr(node, ref, st) ==
    LET p == ExecutePair(node.kids, ref, st)
    IN IF p.k # "ok" THEN Pass(p)
       ELSE IF Is(p.val[1], "Bool") /\ Is(p.val[2], "Bool")
            THEN Ok(Bool(p.val[1].b \/ p.val[2].b), p.st)
       ELSE Throw("Or Error", p.st)

ExecuteAnd(node, ref, st) ==
    LET p == ExecutePair(node.kids, ref, st)
    IN IF p.k # "ok" THEN Pass(p)
       ELSE IF Is(p.val[1], "Bool") /\ Is(p.val[2], "Bool")
            THEN Ok(Bool(p.val[1].b /\ p.val[2].b), p.st)
       ELSE Throw("And Error", p.st)

\* Not::Execute
ExecuteNot(node, ref, st) ==
    LET a == Execute(node.kids[1], ref, st)
    IN IF a.k # "ok" THEN Pass(a)
       ELSE IF Is(a.val, "Bool") THEN Ok(Bool(~a.val.b), a.st)
       ELSE Throw("Not Error", a.st)

\* Comparison::Execute (operands side-effect free in every program of the model,
\* so the unspecified order of the two argument evaluations does not show)
ExecuteComparison(node, ref, st) ==
    LET p == ExecutePair(node.kids, ref, st)
    IN IF p.k # "ok" THEN Pass(p)
       ELSE Comparator(node.s, p.val[1], p.val[2], p.st)

\* IfElse::Execute
ExecuteIfElse(node, ref, st) ==
    LET c == Execute(node.kids[1], ref, st)
    IN IF c.k # "ok" THEN Pass(c)
       ELSE IF ~Is(c.val, "Bool") THEN UB(c.st)
       ELSE IF c.val.b THEN Execute(node.kids[2], ref, c.st)
       ELSE IF Len(node.kids) = 3 THEN Execute(node.kids[3], ref, c.st)
       ELSE Ok(NoneV, c.st)

\* Assignment::Execute: the right operand of = first, then closure[var_name_]
ExecuteAssignment(node, ref, st) ==
    LET rv == Execute(node.kids[1], ref, st)
    IN IF rv.k # "ok" THEN Pass(rv)
       ELSE Ok(rv.val, Bind(rv.st, ref, node.s, rv.val))

\* Statement::Execute(closure, context), by node class
Execute(node, ref, st) ==
    CASE node.op = "NumericConst" -> Ok(Number(node.n), st)
      [] node.op = "StringConst" -> Ok(String(node.s), st)
      [] node.op = "BoolConst" -> Ok(Bool(node.b), st)
      [] node.op = "None" -> Ok(NoneV, st)
      [] node.op = "VariableValue" -> ExecuteVariableValue(node, ref, st)
      [] node.op = "Assignment" -> ExecuteAssignment(node, ref, st)
      [] node.op = "FieldAssignment" -> ExecuteFieldAssignment(node, ref, st)
      [] node.op = "PrintStmt" -> ExecutePrint(node, ref, st)
      [] node.op = "MethodCall" -> ExecuteMethodCall(node, ref, st)
      [] node.op = "Stringify" -> ExecuteStringify(node, ref, st)
      [] node.op = "Add" -> ExecuteAdd(node, ref, st)
      [] node.op = "Sub" -> ExecuteSub(node, ref, st)
      [] node.op = "Mult" -> ExecuteMult(node, ref, st)
      [] node.op = "Div" -> ExecuteDiv(node, ref, st)
      [] node.op = "Or" -> ExecuteOr(node, ref, st)
      [] node.op = "And" -> ExecuteAnd(node, ref, st)
      [] node.op = "Not" -> ExecuteNot(node, ref, st)
      [] node.op = "Comparison" -> ExecuteComparison(node, ref, st)
      [] node.op = "Compound" -> ExecuteCompound(node.kids, 1, ref, st)
      [] node.op = "Return" -> ExecuteReturn(node, ref, st)
      [] node.op = "ClassDefinition" -> Ok(ClassV(node.s), Bind(st, ref, node.s, ClassV(node.s)))
      [] node.op = "IfElse" -> ExecuteIfElse(node, ref, st)
      [] node.op = "NewInstance" -> ExecuteNewInstance(node, ref, st)
      [] node.op = "MethodBody" -> ExecuteMethodBody(node, ref, st)

\* ClassInstance::ClassInstance(cls): fields_["self"] = Share(*this)
ClassInstance(id, cls) == [class_ |-> cls, fields_ |-> ("self" :> InstanceV(id))]

\* the evaluator state a top-level Execute starts from, and what it leaves
StartState == [globals |-> globals, heap |-> heap, frames |-> <<>>, out |-> out,
               calls |-> <<>>, errs |-> <<>>, rets |-> <<>>]

NoLast == [op |-> "", cls |-> "", name |-> "", n |-> 0, k |-> "", val |-> NoneV,
           msg |-> "", found |-> FALSE, owner |-> "", arity |-> 0,
           errs |-> <<>>, rets |-> <<>>, held |-> FALSE, args |-> <<>>, out0 |-> "",
           prog |-> <<>>]

\* no call on the token cursor yet: before is the cursor the call started from,
\* kind, n, s what an Expect asked for, tok the token the call returned
NoLexLast == [op |-> "", kind |-> "", n |-> 0, s |-> "", before |-> 0, k |-> "",
              tok |-> [kind |-> "", n |-> 0, s |-> ""]]

\* the lexer part of the state before Lexer::Lexer has run
LexIdle ==
    /\ tokens_ = <<>> /\ indent_count = 0 /\ lines_read = 0 /\ temp_string = <<>>
    /\ lex_done = FALSE
    /\ current_token_ = 0
    /\ lex_last = NoLexLast

(***************************************************************************)
(* Class tables with a parent chain: method lookup and construction.       *)
(***************************************************************************)
MaxChain == 3
MaxArity == 1

ChainName(i) == "K" \o ToString(i)
ParamNames(a) == [i \in 1..a |-> "p" \o ToString(i)]

\* the methods of one class of a chain: init is the number of formals of its
\* __init__ (-1: it defines none), f whether it defines f()
ChainMethods(owner, init, f) ==
    (IF init >= 0
     THEN <<Method("__init__", ParamNames(init), MethodBody(Return(StringConst(owner))))>>
     ELSE <<>>)
    \o (IF f THEN <<Method("f", <<>>, MethodBody(Return(StringConst(owner))))>> ELSE <<>>)

ChainChoices == [init : -1..MaxArity, f : BOOLEAN]

\* K1 is the root; Ki derives from K(i-1)
ChainTable(choice) ==
    [c \in {ChainName(i) : i \in 1..Len(choice)} |->
        LET i == CHOOSE j \in 1..Len(choice) : ChainName(j) = c
        IN Class(ChainMethods(c, choice[i].init, choice[i].f),
                 IF i = 1 THEN "" ELSE ChainName(i - 1))]

\* one NewInstance node (and so one instance) per class and argument count
ChainNodeId(i, n) == (i - 1) * (MaxArity + 1) + n + 1
ChainNode(i, n) == NewInstance(ChainNodeId(i, n), [j \in 1..n |-> NumericConst(j)])

ChainHeap(len) ==
    [id \in 1..(len * (MaxArity + 1)) |->
        ClassInstance(id, ChainName(((id - 1) \div (MaxArity + 1)) + 1))]

InitClass ==
    /\ \E len \in 1..MaxChain : \E choice \in [1..len -> ChainChoices] :
          /\ classes = ChainTable(choice)
          /\ heap = ChainHeap(len)
    /\ globals = EmptyMap
    /\ out = ""
    /\ last = NoLast
    /\ calls = <<>>
    /\ steps = 0
    /\ LexIdle

\* a caller asks Class::GetMethod(name) of class c
LookupMethod(c, name) ==
    /\ LET ptr == GetMethod(c, name)
       IN last' = [NoLast EXCEPT !.op = "GetMethod", !.cls = c, !.name = name,
                                 !.found = ptr.found, !.owner = ptr.owner,
                                 !.arity = Len(ptr.method.formal_params)]
    /\ calls' = <<>>
    /\ UNCHANGED <<classes, globals, heap, out, steps, lexVars>>

\* the driver executes the NewInstance node of class Ki with n arguments
ConstructInstance(i, n) ==
    /\ LET r == Execute(ChainNode(i, n), GlobalRef, StartState)
       IN /\ last' = [NoLast EXCEPT !.op = "NewInstance", !.cls = ChainName(i), !.n = n,
                                    !.k = r.k, !.val = r.val, !.msg = r.msg,
                                    !.errs = r.st.errs, !.rets = r.st.rets]
          /\ calls' = r.st.calls
          /\ heap' = r.st.heap
          /\ globals' = r.st.globals
          /\ out' = r.st.out
    /\ UNCHANGED <<classes, steps, lexVars>>

NextClass ==
    \/ \E c \in DOMAIN classes : \E name \in {"__init__", "f", "g"} : LookupMethod(c, name)
    \/ \E i \in 1..MaxChain : \E n \in 0..MaxArity :
          ChainName(i) \in DOMAIN classes /\ ConstructInstance(i, n)

SpecClass == InitClass /\ [][NextClass]_vars

\* the parent chain of class c, nearest first, read off the parent_ pointers
RECURSIVE ChainOf(_)
ChainOf(c) == IF classes[c].parent_ = "" THEN <<c>> ELSE <<c>> \o ChainOf(classes[c].parent_)

Defines(c, name) == name \in DOMAIN classes[c].methods_

\* the index in ChainOf(c) of the nearest class defining name; 0 if none does
Nearest(c, name) ==
    LET ch == ChainOf(c)
        hits == {i \in 1..Len(ch) : Defines(ch[i], name)}
    IN IF hits = {} THEN 0 ELSE CHOOSE i \in hits : \A j \in hits : i <= j

InitInvoked == \E i \in 1..Len(calls) : calls[i].method = "__init__"

\* C6 as amended: NewInstance.Execute with n arguments returns the instance, and it
\* invokes __init__ exactly when the nearest definition of __init__ on the chain
\* class, parent, ... has exactly n formal parameters; the definition run is that one.
C6_InitByNearestDefinition ==
    last.op = "NewInstance" =>
        LET ch == ChainOf(last.cls)
            i == Nearest(last.cls, "__init__")
            fits == i # 0 /\ Len(classes[ch[i]].methods_["__init__"].formal_params) = last.n
        IN /\ last.k = "ok" /\ Is(last.val, "ClassInstance")
           /\ InitInvoked <=> fits
           /\ fits => /\ Len(calls) = 1
                      /\ calls[1].owner = ch[i]
                      /\ calls[1].self = last.val.n

\* C6 witness: the class defines __init__ with another arity, an ancestor defines it
\* with n formals, and the construction ran no __init__
C6_Witness ==
    /\ last.op = "NewInstance"
    /\ Defines(last.cls, "__init__")
    /\ Len(classes[last.cls].methods_["__init__"].formal_params) # last.n
    /\ \E j \in 2..Len(ChainOf(last.cls)) :
          /\ Defines(ChainOf(last.cls)[j], "__init__")
          /\ Len(classes[ChainOf(last.cls)[j]].methods_["__init__"].formal_params) = last.n
    /\ ~InitInvoked
    /\ last.k = "ok"

\* C6 as stated: __init__ is invoked exactly when the class or any class of its
\* ancestor chain defines an __init__ with exactly n formal parameters
C6_InitByAnyAncestor ==
    last.op = "NewInstance" =>
        (InitInvoked <=>
            \E j \in 1..Len(ChainOf(last.cls)) :
                /\ Defines(ChainOf(last.cls)[j], "__init__")
                /\ Len(classes[ChainOf(last.cls)[j]].methods_["__init__"].formal_params) = last.n)

\* C7: GetMethod(m) on class C returns the definition of m in the nearest class of the
\* chain C, parent, grandparent, ... that defines m, and none when no class defines m
C7_GetMethodNearest ==
    last.op = "GetMethod" =>
        LET ch == ChainOf(last.cls)
            i == Nearest(last.cls, last.name)
        IN IF i = 0 THEN ~last.found
           ELSE /\ last.found
                /\ last.owner = ch[i]
                /\ last.arity = Len(classes[ch[i]].methods_[last.name].formal_params)

\* C7 witness: a lookup answered by an ancestor's definition while a farther
\* ancestor defines the method too
C7_Witness ==
    /\ last.op = "GetMethod"
    /\ last.found
    /\ last.owner # last.cls
    /\ \E j \in 1..Len(ChainOf(last.cls)) :
          /\ Defines(ChainOf(last.cls)[j], last.name)
          /\ ChainOf(last.cls)[j] # last.owner

(***************************************************************************)
(* Lexer (lexer.cpp).  A line is a sequence of one-character strings; a    *)
(* stream is the line, the read position and whether it is still good()    *)
(* (neither eofbit nor failbit set).                                       *)
(***************************************************************************)
Tok(kind, n, s) == [kind |-> kind, n |-> n, s |-> s]
Plain(kind) == Tok(kind, 0, "")
EOFCHAR == "EOF"

\* lexer.h keywords_
keywords_ ==
    [class |-> Plain("Class"), return |-> Plain("Return"), if |-> Plain("If"),
     else |-> Plain("Else"), def |-> Plain("Def"), print |-> Plain("PrintKw"),
     or |-> Plain("Or"), None |-> Plain("None"), and |-> Plain("And"),
     not |-> Plain("Not"), True |-> Plain("True"), False |-> Plain("False")]

\* lexer.h operations_char_
operations_char_ ==
    ("+" :> Tok("Char", 0, "+")) @@ ("-" :> Tok("Char", 0, "-")) @@
    ("*" :> Tok("Char", 0, "*")) @@ ("/" :> Tok("Char", 0, "/")) @@
    ("=" :> Tok("Char", 0, "=")) @@ (">" :> Tok("Char", 0, ">")) @@
    ("<" :> Tok("Char", 0, "<")) @@ ("!" :> Plain("None"))

\* lexer.h operations_
operations_ ==
    ("!=" :> Plain("NotEq")) @@ ("==" :> Plain("Eq")) @@
    ("<=" :> Plain("LessOrEq")) @@ (">=" :> Plain("GreaterOrEq"))

\* lexer.h chars_
chars_ == [c \in {"(", ")", ":", ",", "."} |-> Tok("Char", 0, c)]

\* lexer.h numbers_
numbers_ == {"0", "1", "2", "3", "4", "5", "6", "7", "8", "9"}

Stream(line) == [buf |-> line, pos |-> 1, good |-> TRUE]

\* input >> c with noskipws: c keeps its old value when the read fails
Extract(in, c) ==
    IF in.good /\ in.pos <= Len(in.buf)
    THEN [ok |-> TRUE, c |-> in.buf[in.pos], in |-> [in EXCEPT !.pos = @ + 1]]
    ELSE [ok |-> FALSE, c |-> c, in |-> [in EXCEPT !.good = FALSE]]

\* input.peek(): EOF when the stream is not good or at its end (which sets eofbit)
Peek(in) ==
    IF in.good /\ in.pos <= Len(in.buf) THEN [c |-> in.buf[in.pos], in |-> in]
    ELSE [c |-> EOFCHAR, in |-> [in EXCEPT !.good = FALSE]]

\* input.putback(c) after a successful read of c
Putback(in) == IF in.good THEN [in EXCEPT !.pos = @ - 1] ELSE in

Dedents(n) == [i \in 1..n |-> Plain("Dedent")]
Indents(n) == [i \in 1..n |-> Plain("Indent")]

\* a ReadIndents that opens one block per deeper line, however much deeper it is
RECURSIVE ReadIndentsOneIndent(_, _, _, _, _)
ReadIndentsOneIndent(in, c, indent, toks, old_indent) ==
    LET r == Extract(in, c)
    IN IF r.c = " "
       THEN LET p == Peek(r.in)
            IN IF p.c = " "
               THEN ReadIndentsOneIndent([p.in EXCEPT !.pos = @ + 1], r.c, indent + 1,
                                         toks, old_indent)
               ELSE [in |-> p.in, toks |-> toks, old_indent |-> old_indent]
       ELSE IF indent > old_indent
            THEN [in |-> Putback(r.in), toks |-> toks \o Indents(1), old_indent |-> indent]
            ELSE IF indent < old_indent
            THEN [in |-> Putback(r.in), toks |-> toks \o Dedents(old_indent - indent),
                  old_indent |-> indent]
            ELSE [in |-> Putback(r.in), toks |-> toks, old_indent |-> old_indent]

\* a ReadIndents whose dedent branch forgets old_indent = indent
RECURSIVE ReadIndentsStale(_, _, _, _, _)
ReadIndentsStale(in, c, indent, toks, old_indent) ==
    LET r == Extract(in, c)
    IN IF r.c = " "
       THEN LET p == Peek(r.in)
            IN IF p.c = " "
               THEN ReadIndentsStale([p.in EXCEPT !.pos = @ + 1], r.c, indent + 1,
                                     toks, old_indent)
               ELSE [in |-> p.in, toks |-> toks, old_indent |-> old_indent]
       ELSE IF indent > old_indent
            THEN [in |-> Putback(r.in), toks |-> toks \o Indents(indent - old_indent),
                  old_indent |-> indent]
            ELSE [in |-> Putback(r.in), toks |-> toks \o Dedents(old_indent - indent),
                  old_indent |-> old_indent]

RECURSIVE ReadIndents(_, _, _, _, _)
\* Lexer::ReadIndents: c and indent are its locals, carried round the loop
ReadIndents(in, c, indent, toks, old_indent) ==
    LET r == Extract(in, c)
    IN IF r.c = " "
       THEN LET p == Peek(r.in)
            IN IF p.c = " "
               THEN ReadIndents([p.in EXCEPT !.pos = @ + 1], r.c, indent + 1,
                                toks, old_indent)
               ELSE [in |-> p.in, toks |-> toks, old_indent |-> old_indent]
       ELSE IF indent > old_indent
            THEN [in |-> Putback(r.in), toks |-> toks \o Indents(indent - old_indent),
                  old_indent |-> indent]
            ELSE IF indent < old_indent
            THEN [in |-> Putback(r.in), toks |-> toks \o Dedents(old_indent - indent),
                  old_indent |-> indent]
            ELSE [in |-> Putback(r.in), toks |-> toks, old_indent |-> old_indent]

\* std::stoi of a run of decimal digits
RECURSIVE Stoi(_, _)
Stoi(digits, acc) ==
    IF digits = <<>> THEN acc
    ELSE Stoi(Tail(digits),
              10 * acc + (CHOOSE d \in 0..9 : ToString(d) = Head(digits)))

RECURSIVE ReadNumberLoop(_, _)
ReadNumberLoop(in, number) ==
    LET r == Extract(in, "")
    IN IF ~r.ok THEN [in |-> r.in, number |-> number]
       ELSE IF r.c \in numbers_ THEN ReadNumberLoop(r.in, Append(number, r.c))
       ELSE [in |-> Putback(r.in), number |-> number]

\* Lexer::ReadNumber
ReadNumber(in, toks) ==
    LET first == Extract(in, "")
        is_minus == first.c = "-"
        l == ReadNumberLoop(IF is_minus THEN first.in ELSE Putback(first.in), <<>>)
    IN [in |-> l.in,
        toks |-> toks \o (IF is_minus THEN <<Tok("Char", 0, "-")>> ELSE <<>>)
                      \o <<Tok("Number", Stoi(l.number, 0), "")>>]

RECURSIVE ReadStringLoop(_, _, _)
ReadStringLoop(in, quote, result) ==
    LET r == Extract(in, "")
    IN IF ~r.ok THEN [in |-> r.in, result |-> result]
       ELSE IF r.c = "\\"
            THEN LET e == Extract(r.in, r.c)
                 IN ReadStringLoop(e.in, quote,
                        result \o (IF e.c = "t" THEN "\t" ELSE IF e.c = "n" THEN "\n" ELSE e.c))
       ELSE IF r.c = quote THEN [in |-> r.in, result |-> result]
       ELSE ReadStringLoop(r.in, quote, result \o r.c)

\* Lexer::ReadString
ReadString(in, toks) ==
    LET first == Extract(in, "")
        l == ReadStringLoop(first.in, IF first.c = "'" THEN "'" ELSE "\"", "")
    IN [in |-> l.in, toks |-> Append(toks, Tok("String", 0, l.result))]

RECURSIVE ReadId(_, _, _)
\* Lexer::ReadId: id is its local, carried round the loop
ReadId(in, toks, id) ==
    LET r == Extract(in, "")
        emit(s) == IF id \in DOMAIN keywords_
                   THEN [in |-> s, toks |-> Append(toks, keywords_[id])]
                   ELSE [in |-> s, toks |-> Append(toks, Tok("Id", 0, id))]
    IN IF ~r.ok THEN emit(r.in)
       ELSE IF r.c = "#"
            THEN \* input.clear(eofbit | failbit): the rest of the line is dropped
                 [in |-> [r.in EXCEPT !.good = FALSE],
                  toks |-> IF id # "" THEN Append(toks, Tok("Id", 0, id)) ELSE toks]
       ELSE IF r.c = " " \/ r.c \in DOMAIN chars_ \/ r.c \in DOMAIN operations_char_
            THEN emit(Putback(r.in))
       ELSE ReadId(r.in, toks, id \o r.c)

\* Lexer::ReadChar
ReadChar(in, toks) ==
    [in |-> [in EXCEPT !.pos = @ + 1], toks |-> Append(toks, chars_[in.buf[in.pos]])]

\* Lexer::ReadOperation
ReadOperation(in, toks) ==
    LET r == Extract(in, "")
        p == Peek(r.in)
    IN IF r.c \in {"=", "<", ">", "!"} /\ p.c = "="
       THEN [in |-> [p.in EXCEPT !.pos = @ + 1], toks |-> Append(toks, operations_[r.c \o "="])]
       ELSE [in |-> IF r.c \in {"=", "<", ">", "!"} THEN p.in ELSE r.in,
             toks |-> Append(toks, operations_char_[r.c])]

RECURSIVE Tokenise(_, _)
\* the loop while (line >> c) of Lexer::Lexer
Tokenise(in, toks) ==
    LET r == Extract(in, "")
        back == Putback(r.in)
        next == IF r.c = "'" \/ r.c = "\"" THEN ReadString(back, toks)
                ELSE IF r.c \in DOMAIN operations_char_ THEN ReadOperation(back, toks)
                ELSE IF r.c \in DOMAIN chars_ THEN ReadChar(back, toks)
                ELSE IF r.c \in numbers_ THEN ReadNumber(back, toks)
                ELSE ReadId(back, toks, "")
    IN IF ~r.ok THEN toks
       ELSE IF r.c = " " THEN Tokenise(r.in, toks)
       ELSE Tokenise(next.in, next.toks)

\* one turn of the loop while (!input.eof()) of Lexer::Lexer on the line getline read
LexLine(toks, old_indent, line) ==
    IF Len(line) = 0 \/ line[1] = "#" THEN [toks |-> toks, old_indent |-> old_indent]
    ELSE LET ind == ReadIndents(Stream(line), "", 0, toks, old_indent)
             body == Tokenise(ind.in, ind.toks)
         IN [toks |-> IF body # <<>> THEN Append(body, Plain("Newline")) ELSE body,
             old_indent |-> ind.old_indent]

\* an end of input that pushes Eof before the closing dedents
LexEndEofFirst(toks, old_indent) == toks \o <<Plain("Eof")>> \o Dedents(old_indent)

\* the end of Lexer::Lexer, after the loop
LexEnd(toks, old_indent) == toks \o Dedents(old_indent) \o <<Plain("Eof")>>

(***************************************************************************)
(* The Lexer constructor, line by line, on every input whose lines are up  *)
(* to MaxSpaces spaces followed by up to MaxBody characters.               *)
(***************************************************************************)
MaxLines == 2
MaxSpaces == 4
MaxBody == 1

LexChars == {" ", "#", "x", ":", "="}

\* some longer line bodies: a statement, a block header, a trailing comment, a
\* string, and keywords ended by a comment, a structural character, the line end
ExtraBodies ==
    {<<"x", " ", "=", " ", "1", "2">>, <<"i", "f", " ", "x", ":">>,
     <<"x", " ", "#", "x">>, <<"'", "#", "'">>,
     <<"i", "f", "#", "x">>, <<"e", "l", "s", "e", ":">>, <<"n", "o", "t">>}

Spaces(n) == [i \in 1..n |-> " "]

SeqsUpTo(S, n) == UNION {[1..m -> S] : m \in 0..n}

InputLines == {Spaces(sp) \o body : sp \in 0..MaxSpaces, body \in SeqsUpTo(LexChars, MaxBody) \cup ExtraBodies}

InitLex ==
    /\ classes = [c \in {} |-> Class(<<>>, "")]
    /\ globals = EmptyMap
    /\ heap = <<>>
    /\ out = ""
    /\ last = NoLast
    /\ calls = <<>>
    /\ steps = 0
    /\ LexIdle

\* getline hands the constructor the next line of the input
ReadLine(line) ==
    /\ ~lex_done
    /\ lines_read < MaxLines
    /\ LET r == LexLine(tokens_, indent_count, line)
       IN /\ tokens_' = r.toks
          /\ indent_count' = r.old_indent
    /\ lines_read' = lines_read + 1
    /\ temp_string' = line
    /\ UNCHANGED <<lex_done, cursorVars, evalVars>>

\* input.eof(): the loop ends, the constructor closes the blocks and returns
FinishLexer ==
    /\ ~lex_done
    /\ tokens_' = LexEnd(tokens_, indent_count)
    /\ lex_done' = TRUE
    /\ UNCHANGED <<indent_count, lines_read, temp_string, cursorVars, evalVars>>

NextLex ==
    \/ \E line \in InputLines : ReadLine(line)
    \/ FinishLexer

SpecLex == InitLex /\ [][NextLex]_vars

CountKind(toks, kind) == Cardinality({i \in 1..Len(toks) : toks[i].kind = kind})

\* the number of Dedent tokens right before the last token
RECURSIVE TrailingDedents(_, _)
TrailingDedents(toks, i) ==
    IF i >= 1 /\ toks[i].kind = "Dedent" THEN 1 + TrailingDedents(toks, i - 1) ELSE 0

\* C9: the token sequence the Lexer builds contains exactly one Eof token and it is
\* the last token of the sequence
C9_OneEofLast ==
    lex_done =>
        /\ Len(tokens_) >= 1
        /\ tokens_[Len(tokens_)].kind = "Eof"
        /\ CountKind(tokens_, "Eof") = 1

\* C9 witness: a finished token sequence of an input that produced tokens and left
\* blocks open
C9_Witness ==
    /\ lex_done
    /\ lines_read = MaxLines
    /\ indent_count > 0
    /\ CountKind(tokens_, "Newline") >= 2
    /\ tokens_[Len(tokens_)].kind = "Eof"

\* C10: over the whole token sequence the number of Dedent tokens equals the number of
\* Indent tokens, and the Dedents emitted at end of input are exactly as many as the
\* value of the indent counter at that moment
C10_IndentsBalanced ==
    lex_done =>
        /\ CountKind(tokens_, "Dedent") = CountKind(tokens_, "Indent")
        /\ TrailingDedents(tokens_, Len(tokens_) - 1) = indent_count

\* the number of spaces a line starts with
RECURSIVE LeadingSpaces(_)
LeadingSpaces(line) ==
    IF line # <<>> /\ Head(line) = " " THEN 1 + LeadingSpaces(Tail(line)) ELSE 0

\* C10 witness: the input opened a block and ended with a line of an odd number of
\* leading spaces and some text; the closing Dedent came at end of input
C10_Witness ==
    /\ lex_done
    /\ CountKind(tokens_, "Indent") >= 1
    /\ CountKind(tokens_, "Dedent") = CountKind(tokens_, "Indent")
    /\ indent_count > 0
    /\ LeadingSpaces(temp_string) % 2 = 1
    /\ LeadingSpaces(temp_string) < Len(temp_string)

\* the block depth after the first n tokens: Indents minus Dedents
Depth(toks, n) == CountKind(SubSeq(toks, 1, n), "Indent") - CountKind(SubSeq(toks, 1, n), "Dedent")

HasBody(line) == \E i \in 1..Len(line) : line[i] # " "

\* the constructor has just taken one more line, which it does not skip
TookLine == lines_read' = lines_read + 1 /\ Len(temp_string') > 0 /\ temp_string'[1] # "#"

\* the tokens the line just taken appended to tokens_
LineTokens == SubSeq(tokens_', Len(tokens_) + 1, Len(tokens_'))

\* C11: a line that is not skipped, with k leading spaces before its first other
\* character, sets old_indent to k / 2 rounded down, after new_indent - old_indent
\* Indent tokens when it grows, old_indent - new_indent Dedent tokens when it
\* shrinks and none when it is equal, for odd k as for even k
C11_IndentIsHalfTheSpaces ==
    [][(TookLine /\ HasBody(temp_string')) =>
          LET new_indent == LeadingSpaces(temp_string') \div 2
          IN /\ indent_count' = new_indent
             /\ CountKind(LineTokens, "Indent") =
                   (IF new_indent > indent_count THEN new_indent - indent_count ELSE 0)
             /\ CountKind(LineTokens, "Dedent") =
                   (IF new_indent < indent_count THEN indent_count - new_indent ELSE 0)]_vars

\* C12: a line of one or more spaces and nothing else appends no token, wherever
\* it stands, and a line appends a Newline only if it emitted a token that is not
\* an Indent or a Dedent
C12_BlankLineAddsNothing ==
    [][TookLine =>
          /\ ~HasBody(temp_string') => tokens_' = tokens_
          /\ CountKind(LineTokens, "Newline") > 0 =>
                \E i \in 1..Len(LineTokens) :
                    LineTokens[i].kind \notin {"Indent", "Dedent", "Newline"}]_vars

\* C13: an identifier whose text is a keyword is never emitted as Id(text),
\* whatever ends it; the Id tokens carry the other identifiers
C13_KeywordsNeverId ==
    \A i \in 1..Len(tokens_) : tokens_[i].kind = "Id" => tokens_[i].s \notin DOMAIN keywords_

(***************************************************************************)
(* The token cursor of a constructed Lexer: NextToken, Expect, ExpectNext. *)
(***************************************************************************)
\* the lines the programs handed to the constructor are made of
CursorLines ==
    {<<"x", " ", "=", " ", "1", "2">>, <<" ", " ", "x">>, <<"i", "f", " ", "x", ":">>}

\* Lexer::Lexer on the lines[i..] of an input: the loop, then the end of input
RECURSIVE LexProgram(_, _, _, _)
LexProgram(lines, i, toks, old_indent) ==
    IF i > Len(lines) THEN [toks |-> LexEnd(toks, old_indent), old_indent |-> old_indent]
    ELSE LET r == LexLine(toks, old_indent, lines[i])
         IN LexProgram(lines, i + 1, r.toks, r.old_indent)

InitCursor ==
    /\ \E lines \in SeqsUpTo(CursorLines, MaxLines) :
          /\ tokens_ = LexProgram(lines, 1, <<>>, 0).toks
          /\ indent_count = LexProgram(lines, 1, <<>>, 0).old_indent
          /\ lines_read = Len(lines)
          /\ temp_string = IF lines = <<>> THEN <<>> ELSE lines[Len(lines)]
    /\ lex_done = TRUE
    /\ current_token_ = 0
    /\ lex_last = NoLexLast
    /\ classes = [c \in {} |-> Class(<<>>, "")]
    /\ globals = EmptyMap
    /\ heap = <<>>
    /\ out = ""
    /\ last = NoLast
    /\ calls = <<>>
    /\ steps = 0

\* Lexer::CurrentToken
CurrentToken(toks, cur) == toks[cur + 1]

\* a NextToken that starts again at the first token after the last
AdvanceAround(toks, cur) == IF cur = Len(toks) - 1 THEN 0 ELSE cur + 1

\* Lexer::NextToken: the cursor it leaves
Advance(toks, cur) == IF ~(cur = Len(toks) - 1) THEN cur + 1 ELSE cur

\* a check of the kind alone
MatchesKindOnly(tok, kind, n, s) == tok.kind = kind

\* Expect<T, U>(value): Is<T>() and As<T>().value == value
MatchesValue(tok, kind, n, s) ==
    IF tok.kind = kind
    THEN (IF kind = "Number" THEN tok.n = n ELSE tok.s = s)
    ELSE FALSE

\* Expect<T>(): Is<T>()
Matches(tok, kind) == tok.kind = kind

\* what a call that started at cursor before and checked (or returned) the token
\* at cursor cur leaves; a failed check is a LexerError
Called(op, kind, n, s, cur, ok) ==
    /\ current_token_' = cur
    /\ lex_last' = [op |-> op, kind |-> kind, n |-> n, s |-> s, before |-> current_token_,
                    k |-> IF ok THEN "ok" ELSE "throw",
                    tok |-> IF ok THEN CurrentToken(tokens_, cur) ELSE NoLexLast.tok]
    /\ UNCHANGED <<tokens_, indent_count, lines_read, temp_string, lex_done, evalVars>>

NextToken ==
    /\ lex_done
    /\ Called("NextToken", "", 0, "", Advance(tokens_, current_token_), TRUE)

Expect(kind) ==
    /\ lex_done
    /\ Called("Expect", kind, 0, "", current_token_,
              Matches(CurrentToken(tokens_, current_token_), kind))

ExpectValue(kind, n, s) ==
    /\ lex_done
    /\ Called("ExpectValue", kind, n, s, current_token_,
              MatchesValue(CurrentToken(tokens_, current_token_), kind, n, s))

ExpectNext(kind) ==
    /\ lex_done
    /\ LET cur == Advance(tokens_, current_token_)
       IN Called("ExpectNext", kind, 0, "", cur, Matches(CurrentToken(tokens_, cur), kind))

ExpectNextValue(kind, n, s) ==
    /\ lex_done
    /\ LET cur == Advance(tokens_, current_token_)
       IN Called("ExpectNextValue", kind, n, s, cur,
                 MatchesValue(CurrentToken(tokens_, cur), kind, n, s))

\* the token kinds and the valued tokens the callers ask for
ExpectKinds == {"Id", "Number", "Char", "Newline", "Indent", "If", "Eof"}
ExpectValues ==
    {Tok("Id", 0, "x"), Tok("Id", 0, "y"), Tok("Number", 12, ""), Tok("Number", 0, ""),
     Tok("Char", 0, "="), Tok("Char", 0, ":")}

NextCursor ==
    \/ NextToken
    \/ \E kind \in ExpectKinds : Expect(kind)
    \/ \E v \in ExpectValues : ExpectValue(v.kind, v.n, v.s)
    \/ \E kind \in ExpectKinds : ExpectNext(kind)
    \/ \E v \in ExpectValues : ExpectNextValue(v.kind, v.n, v.s)

SpecCursor == InitCursor /\ [][NextCursor]_vars

\* the cursor is on the Eof token
AtEof == tokens_[current_token_ + 1].kind = "Eof"

\* C14: the cursor stays within the token sequence and never moves backward; a
\* NextToken moves it forward by one from a token that is not the last and leaves
\* it where it is on the last, returning the token it is then on; once the
\* current token is Eof it stays Eof
C14_CursorSaturates ==
    /\ [](current_token_ \in 0..(Len(tokens_) - 1))
    /\ [][/\ current_token_' >= current_token_
          /\ AtEof => AtEof'
          /\ lex_last'.op = "NextToken" =>
                /\ current_token_' = (IF current_token_ < Len(tokens_) - 1
                                      THEN current_token_ + 1 ELSE current_token_)
                /\ lex_last'.tok = tokens_[current_token_' + 1]]_vars

\* C14 witness: a NextToken called with the cursor on the final Eof of a sequence
\* of several tokens, which left it there and returned Eof
C14_Witness ==
    /\ lex_last.op = "NextToken"
    /\ Len(tokens_) > 1
    /\ lex_last.before = Len(tokens_) - 1
    /\ current_token_ = Len(tokens_) - 1
    /\ lex_last.tok.kind = "Eof"

\* the token with the payload the last call asked for
Asked == [kind |-> lex_last.kind, n |-> lex_last.n, s |-> lex_last.s]

\* C15: Expect<K>() succeeds iff the current token has kind K, Expect<K>(value)
\* iff it has kind K and payload value, and they fail with a LexerError otherwise,
\* the cursor unmoved; ExpectNext first moves the cursor as NextToken does, then
\* checks the token it is on, so the cursor has moved whether the check fails or not
C15_ExpectChecksCurrent ==
    LET tok == tokens_[current_token_ + 1]
        moved == IF lex_last.before < Len(tokens_) - 1 THEN lex_last.before + 1
                 ELSE lex_last.before
    IN /\ lex_last.op \in {"Expect", "ExpectValue"} => current_token_ = lex_last.before
       /\ lex_last.op \in {"ExpectNext", "ExpectNextValue"} => current_token_ = moved
       /\ lex_last.op \in {"Expect", "ExpectNext"} =>
             /\ lex_last.k = (IF tok.kind = lex_last.kind THEN "ok" ELSE "throw")
             /\ lex_last.k = "ok" => lex_last.tok = tok
       /\ lex_last.op \in {"ExpectValue", "ExpectNextValue"} =>
             lex_last.k = (IF tok = Asked THEN "ok" ELSE "throw")

\* C15 witness: an ExpectNext<K>(value) that failed on a token of kind K with
\* another payload, after it had moved the cursor
C15_Witness ==
    /\ lex_last.op = "ExpectNextValue"
    /\ lex_last.k = "throw"
    /\ current_token_ = lex_last.before + 1
    /\ tokens_[current_token_ + 1].kind = lex_last.kind

(***************************************************************************)
(* Programs over two classes: method bodies, returns, errors, instances.   *)
(***************************************************************************)
MaxNest == 2
MaxSteps == 3

\* stmt under d enclosing Compound / IfElse statements
RECURSIVE Nested(_, _)
Nested(d, stmt) ==
    IF d = 0 THEN stmt
    ELSE IF d % 2 = 1
         THEN Compound(<<IfElse(BoolConst(TRUE), Nested(d - 1, stmt), Compound(<<>>))>>)
         ELSE Compound(<<IfElse(BoolConst(FALSE), Compound(<<>>), Nested(d - 1, stmt))>>)

RetName(d) == "ret" \o ToString(d)

Var(name) == VariableValue(<<name>>)

BinaryOps == <<"Add", "Sub", "Mult", "Div", "And", "Or", "Less">>
Binary(op, l, r) ==
    IF op = "Less" THEN Comparison("Less", l, r) ELSE Node(op, 0, "", FALSE, <<>>, <<l, r>>)

\* class A:
\*   def __init__(v): self.f = v
\*   def ret<d>(v): return v            (under d enclosing statements)
\*   def noret(v): t = v
\*   def <Op>(a, b): return a <op> b    def Not(a): return not a
\*   def unbound(): return u            def nofield(): return self.g
\*   def absent(): return self.nomethod()
\*   def arity(): return self.noret()
\*   def __eq__(rhs): return rhs        def __lt__(rhs): return rhs
\*   def __add__(rhs): t = rhs; return t
\*   def __str__(): t = 'A'; return t
MethodsA ==
    <<Method("__init__", <<"v">>,
             MethodBody(Compound(<<FieldAssignment(<<"self">>, "f", Var("v"))>>))),
      Method("noret", <<"v">>, MethodBody(Compound(<<Assignment("t", Var("v"))>>))),
      Method("Not", <<"a">>, MethodBody(Compound(<<Return(Not(Var("a")))>>))),
      Method("unbound", <<>>, MethodBody(Compound(<<Return(Var("u"))>>))),
      Method("nofield", <<>>, MethodBody(Compound(<<Return(VariableValue(<<"self", "g">>))>>))),
      Method("absent", <<>>,
             MethodBody(Compound(<<Return(MethodCall(Var("self"), "nomethod", <<>>))>>))),
      Method("arity", <<>>,
             MethodBody(Compound(<<Return(MethodCall(Var("self"), "noret", <<>>))>>))),
      Method("__eq__", <<"rhs">>, MethodBody(Compound(<<Return(Var("rhs"))>>))),
      Method("__lt__", <<"rhs">>, MethodBody(Compound(<<Return(Var("rhs"))>>))),
      Method("__add__", <<"rhs">>,
             MethodBody(Compound(<<Assignment("t", Var("rhs")), Return(Var("t"))>>))),
      Method("__str__", <<>>,
             MethodBody(Compound(<<Assignment("t", StringConst("A")), Return(Var("t"))>>)))>>
    \o [d \in 1..(MaxNest + 1) |->
          Method(RetName(d - 1), <<"v">>, MethodBody(Nested(d - 1, Return(Var("v")))))]
    \o [i \in 1..Len(BinaryOps) |->
          Method(BinaryOps[i], <<"a", "b">>,
                 MethodBody(Compound(<<Return(Binary(BinaryOps[i], Var("a"), Var("b")))>>)))]

\* class B(A):
\*   def __eq__(rhs): t = rhs           def __lt__(rhs): t = rhs
MethodsB ==
    <<Method("__eq__", <<"rhs">>, MethodBody(Compound(<<Assignment("t", Var("rhs"))>>))),
      Method("__lt__", <<"rhs">>, MethodBody(Compound(<<Assignment("t", Var("rhs"))>>)))>>

ProgramClasses == ("A" :> Class(MethodsA, "")) @@ ("B" :> Class(MethodsB, "A"))

\* the two NewInstance nodes of the program, A(7) and B(), each with the
\* ClassInstance member its constructor built
NewA == NewInstance(1, <<NumericConst(7)>>)
NewB == NewInstance(2, <<>>)
ProgramHeap == <<ClassInstance(1, "A"), ClassInstance(2, "B")>>

InitEval ==
    /\ classes = ProgramClasses
    /\ heap = ProgramHeap
    /\ globals = EmptyMap
    /\ out = ""
    /\ last = NoLast
    /\ calls = <<>>
    /\ steps = 0
    /\ LexIdle

\* the driver goes on to its next top-level statement: a statement that ended in
\* an error or in undefined behaviour was the last one
Running == steps < MaxSteps /\ last.k \in {"", "ok"}

\* what the statement's Execute on the global closure, with outcome r, leaves
Executed(op, name, r) ==
    /\ last' = [NoLast EXCEPT !.op = op, !.name = name,
                              !.k = r.k, !.val = r.val, !.msg = r.msg,
                              !.errs = r.st.errs, !.rets = r.st.rets,
                              !.held = /\ op = "NewInstance"
                                       /\ r.k = "ok"
                                       /\ \E g \in DOMAIN globals : globals[g] = r.val]
    /\ calls' = r.st.calls
    /\ heap' = r.st.heap
    /\ globals' = r.st.globals
    /\ out' = r.st.out
    /\ steps' = steps + 1
    /\ UNCHANGED <<classes, lexVars>>

\* class A: ...
ExecClassDefinition(cls) ==
    /\ Running
    /\ Executed("ClassDefinition", cls, Execute(ClassDefinition(cls), GlobalRef, StartState))

\* var = A(7)   or   var = B()
ExecNewInstance(var, node) ==
    /\ Running
    /\ Executed("NewInstance", var, Execute(Assignment(var, node), GlobalRef, StartState))

\* var = rv
ExecAssignment(var, rv) ==
    /\ Running
    /\ Executed("Assignment", var, Execute(Assignment(var, rv), GlobalRef, StartState))

\* var.field_name = rv
ExecFieldAssignment(var, field_name, rv) ==
    /\ Running
    /\ Executed("FieldAssignment", field_name,
                Execute(FieldAssignment(<<var>>, field_name, rv), GlobalRef, StartState))

\* x.method(args)
ExecMethodCall(method, args) ==
    /\ Running
    /\ Executed("MethodCall", method,
                Execute(MethodCall(Var("x"), method, args), GlobalRef, StartState))

\* x == rhs   or   x < rhs
ExecComparison(cmp, rhs) ==
    /\ Running
    /\ Executed("Comparison", cmp, Execute(Comparison(cmp, Var("x"), rhs), GlobalRef, StartState))

\* x + rhs
ExecAdd(rhs) ==
    /\ Running
    /\ Executed("Add", "__add__", Execute(Add(Var("x"), rhs), GlobalRef, StartState))

\* print var
ExecPrint(var) ==
    /\ Running
    /\ Executed("PrintStmt", var, Execute(PrintArgs(<<Var(var)>>), GlobalRef, StartState))

\* var.field_name
ExecVariableValue(var, field_name) ==
    /\ Running
    /\ Executed("VariableValue", field_name,
                Execute(VariableValue(<<var, field_name>>), GlobalRef, StartState))

\* constant expressions of each primitive type, a truthy and a falsy one each
ConstExprs ==
    {NumericConst(0), NumericConst(1), StringConst(""), StringConst("a"),
     BoolConst(FALSE), BoolConst(TRUE)}

\* the calls of the methods that return or fail
MethodCalls ==
    {<<RetName(d), <<v>>>> : d \in 0..MaxNest, v \in ConstExprs \cup {Var("x"), Var("A")}}
    \cup {<<BinaryOps[i], <<NumericConst(1), r>>>> : i \in 1..Len(BinaryOps), r \in {NumericConst(0), StringConst("a")}}
    \cup {<<"And", <<BoolConst(TRUE), BoolConst(FALSE)>>>>, <<"Not", <<NumericConst(1)>>>>,
          <<"Not", <<BoolConst(TRUE)>>>>, <<"noret", <<NumericConst(1)>>>>,
          <<"unbound", <<>>>>, <<"nofield", <<>>>>, <<"absent", <<>>>>, <<"arity", <<>>>>,
          <<"noret", <<>>>>, <<"nomethod", <<>>>>}

NextMethod ==
    \/ ExecClassDefinition("A")
    \/ \E node \in {NewA, NewB} : ExecNewInstance("x", node)
    \/ \E c \in MethodCalls : ExecMethodCall(c[1], c[2])
    \/ \E cmp \in {"Equal", "Less"} : \E rhs \in ConstExprs : ExecComparison(cmp, rhs)

SpecMethod == InitEval /\ [][NextMethod]_vars

NextInstance ==
    \/ \E var \in {"x", "y"} : \E node \in {NewA, NewB} : ExecNewInstance(var, node)
    \/ ExecAssignment("x", NumericConst(0))
    \/ \E var \in {"x", "y"} : \E field_name \in {"f", "self"} :
          ExecFieldAssignment(var, field_name, NumericConst(1))
    \/ \E method \in {"noret", RetName(0)} : ExecMethodCall(method, <<NumericConst(1)>>)
    \/ ExecComparison("Equal", NumericConst(1))
    \/ ExecAdd(NumericConst(1))
    \/ \E var \in {"x", "y"} : ExecPrint(var)
    \/ \E var \in {"x", "y"} : ExecVariableValue(var, "f")

SpecInstance == InitEval /\ [][NextInstance]_vars

\* C1: a call of a method whose body reaches a Return of a value v, under any
\* number of enclosing Compound and IfElse statements, yields v itself, a Number
\* as a Number and a Bool as a Bool; a call of a method whose body reaches no
\* Return yields the absent value
C1_ReturnKeepsValue ==
    (/\ last.op = "MethodCall"
     /\ last.name \in {RetName(d) : d \in 0..MaxNest} \cup {"noret"}
     /\ last.k = "ok") =>
        IF last.rets = <<>> THEN IsNone(last.val)
        ELSE last.val = last.rets[Len(last.rets)]

\* C2: a runtime error raised while a method body executes ends the enclosing
\* MethodCall in that error: the call yields no value and the top-level caller
\* sees the error
C2_ErrorsLeaveMethodBody ==
    (last.op = "MethodCall" /\ calls # <<>> /\ last.errs # <<>>) =>
        (last.k = "throw" /\ last.msg = last.errs[1])

\* C3: the instance an execution of a NewInstance node returns is a new one: no
\* variable held it before, so no earlier execution of the node returned it
C3_FreshInstance ==
    (last.op = "NewInstance" /\ last.k = "ok") => ~last.held

\* C4: the field store of every instance has the key self, bound to that instance
C4_SelfRefersToInstance ==
    \A id \in DOMAIN heap :
        /\ "self" \in DOMAIN heap[id].fields_
        /\ heap[id].fields_["self"] = InstanceV(id)

\* the local names of the methods of the program: formals and assigned locals
LocalNames == {"t", "v", "rhs", "a", "b"}

\* C5: every method body run of the last statement, the implicit __str__ of a
\* print included, started in a closure holding exactly self and the formals bound
\* to the actual arguments, and no local name of a method is bound in the caller's
\* closure or in an instance's field store
C5_FreshClosure ==
    /\ \A i \in DOMAIN calls :
          calls[i].closure =
             CallFrame(calls[i].self,
                       GetMethod(heap[calls[i].self].class_, calls[i].method).method.formal_params,
                       calls[i].args)
    /\ DOMAIN globals \cap LocalNames = {}
    /\ \A id \in DOMAIN heap : DOMAIN heap[id].fields_ \cap LocalNames = {}

\* C8: x == rhs and x < rhs on an instance x whose class has a one-parameter
\* __eq__ / __lt__ yield IsTrue of the value the method's Return stood for, and
\* false when the method reached no Return
C8_DunderTruthiness ==
    (/\ last.op = "Comparison"
     /\ last.k = "ok"
     /\ "x" \in DOMAIN globals
     /\ Is(globals["x"], "ClassInstance")) =>
        last.val = Bool(IF last.rets = <<>> THEN FALSE
                        ELSE IsTrue(last.rets[Len(last.rets)]))

(***************************************************************************)
(* Expressions over constant operands: comparison, arithmetic, Stringify.  *)
(***************************************************************************)
MaxNum == 2

\* the state after `class A`, `class B(A)`, `x = A(7)`
Prelude == Compound(<<ClassDefinition("A"), ClassDefinition("B"), Assignment("x", NewA)>>)
AfterPrelude ==
    Execute(Prelude, GlobalRef,
            [globals |-> EmptyMap, heap |-> ProgramHeap, frames |-> <<>>, out |-> "",
             calls |-> <<>>, errs |-> <<>>, rets |-> <<>>]).st

InitExpr ==
    /\ classes = ProgramClasses
    /\ heap = AfterPrelude.heap
    /\ globals = AfterPrelude.globals
    /\ out = AfterPrelude.out
    /\ last = NoLast
    /\ calls = <<>>
    /\ steps = 0
    /\ LexIdle

\* the operand values, and for each an expression that evaluates to it
OperandValues ==
    {Number(n) : n \in (-MaxNum)..MaxNum} \cup {String(""), String("a"), String("b")}
    \cup {Bool(FALSE), Bool(TRUE), NoneV, ClassV("A"), ClassV("B"), InstanceV(1)}

ExprOf(v) ==
    CASE Is(v, "Number") -> NumericConst(v.n)
      [] Is(v, "String") -> StringConst(v.s)
      [] Is(v, "Bool") -> BoolConst(v.b)
      [] Is(v, "Class") -> Var(v.s)
      [] Is(v, "ClassInstance") -> Var("x")
      [] OTHER -> NoneStmt

\* what the expression's Execute, on operands of values args and with outcome r, leaves
Evaluated(op, name, args, r) ==
    /\ last' = [NoLast EXCEPT !.op = op, !.name = name, !.args = args,
                              !.k = r.k, !.val = r.val, !.msg = r.msg,
                              !.errs = r.st.errs, !.rets = r.st.rets, !.out0 = out]
    /\ calls' = r.st.calls
    /\ heap' = r.st.heap
    /\ globals' = r.st.globals
    /\ out' = r.st.out
    /\ steps' = steps + 1
    /\ UNCHANGED <<classes, lexVars>>

\* the driver has executed the prelude and nothing since: each behaviour
\* evaluates one expression in that state
AtPrelude == last.op = ""

\* lhs == rhs   or   lhs < rhs
ExecCompare(cmp, lhs, rhs) ==
    /\ AtPrelude
    /\ Evaluated("Comparison", cmp, <<lhs, rhs>>,
                 Execute(Comparison(cmp, ExprOf(lhs), ExprOf(rhs)), GlobalRef, StartState))

\* lhs + rhs, lhs - rhs, lhs * rhs, lhs / rhs
ExecArithmetic(op, lhs, rhs) ==
    /\ AtPrelude
    /\ Evaluated("Arithmetic", op, <<lhs, rhs>>,
                 Execute(Binary(op, ExprOf(lhs), ExprOf(rhs)), GlobalRef, StartState))

\* str(arg)
ExecStringify(arg) ==
    /\ AtPrelude
    /\ Evaluated("Stringify", "once", <<arg>>,
                 Execute(Stringify(ExprOf(arg)), GlobalRef, StartState))

\* str(str(arg))
ExecStringifyTwice(arg) ==
    /\ AtPrelude
    /\ Evaluated("Stringify", "twice", <<arg>>,
                 Execute(Stringify(Stringify(ExprOf(arg))), GlobalRef, StartState))

NextExpr ==
    \/ \E cmp \in {"Equal", "Less"} : \E lhs, rhs \in OperandValues : ExecCompare(cmp, lhs, rhs)
    \/ \E op \in {"Add", "Sub", "Mult", "Div"} : \E lhs, rhs \in OperandValues :
          ExecArithmetic(op, lhs, rhs)
    \/ \E arg \in OperandValues : ExecStringify(arg)
    \/ \E arg \in OperandValues : ExecStringifyTwice(arg)

SpecExpr == InitExpr /\ [][NextExpr]_vars

\* both operands of the last comparison have the primitive type type
BothAre(type) == Is(last.args[1], type) /\ Is(last.args[2], type)

\* the order of the strings of the model
StringBefore(a, b) == <<a, b>> \in {<<"", "a">>, <<"", "b">>, <<"a", "b">>}

\* C16: with lhs not a ClassInstance, Equal returns the equality of the payloads
\* of two Numbers, two Strings or two Bools, true for two absent values and for
\* one and the same object, and fails otherwise; Less returns the order of the
\* payloads of two Numbers, two Strings or two Bools and fails otherwise
C16_PrimitiveComparison ==
    (last.op = "Comparison" /\ ~Is(last.args[1], "ClassInstance")) =>
        LET lhs == last.args[1]
            rhs == last.args[2]
            returns(b) == last.k = "ok" /\ last.val = Bool(b)
        IN IF last.name = "Equal"
           THEN IF BothAre("Number") THEN returns(lhs.n = rhs.n)
                ELSE IF BothAre("String") THEN returns(lhs.s = rhs.s)
                ELSE IF BothAre("Bool") THEN returns(lhs.b = rhs.b)
                ELSE IF BothAre("None") THEN returns(TRUE)
                ELSE IF BothAre("Class") /\ lhs.s = rhs.s THEN returns(TRUE)
                ELSE last.k = "throw" /\ last.errs # <<>>
           ELSE IF BothAre("Number") THEN returns(lhs.n < rhs.n)
                ELSE IF BothAre("String") THEN returns(StringBefore(lhs.s, rhs.s))
                ELSE IF BothAre("Bool") THEN returns(~lhs.b /\ rhs.b)
                ELSE last.k = "throw" /\ last.errs # <<>>

\* C16 witness: Equal of a Class with itself returned true
C16_Witness ==
    /\ last.op = "Comparison" /\ last.name = "Equal"
    /\ BothAre("Class") /\ last.args[1] = last.args[2]
    /\ last.k = "ok" /\ last.val = Bool(TRUE)

\* C17: on Numbers a and b, Add, Sub and Mult return a + b, a - b and a * b, Div
\* the quotient q truncated toward zero (a = q * b + r with |r| < |b| and r of
\* the sign of a) and fails for b = 0; Sub, Mult and Div fail when an operand is
\* not a Number
C17_IntegerArithmetic ==
    last.op = "Arithmetic" =>
        LET a == last.args[1].n
            b == last.args[2].n
            abs(x) == IF x < 0 THEN -x ELSE x
            returns(n) == last.k = "ok" /\ last.val = Number(n)
            fails == last.k = "throw" /\ last.errs # <<>>
        IN IF BothAre("Number")
           THEN CASE last.name = "Add" -> returns(a + b)
                  [] last.name = "Sub" -> returns(a - b)
                  [] last.name = "Mult" -> returns(a * b)
                  [] last.name = "Div" ->
                        IF b = 0 THEN fails
                        ELSE /\ last.k = "ok" /\ Is(last.val, "Number")
                             /\ LET r == a - last.val.n * b
                                IN abs(r) < abs(b) /\ r * a >= 0
           ELSE last.name \in {"Sub", "Mult", "Div"} => fails

\* C17 witness: a Div of a negative Number by a Number that does not divide it
C17_Witness ==
    /\ last.op = "Arithmetic" /\ last.name = "Div" /\ BothAre("Number")
    /\ last.args[1].n < 0 /\ last.args[2].n > 1
    /\ last.k = "ok" /\ last.val.n * last.args[2].n # last.args[1].n

\* what printing a value of a primitive type, or the absent value, writes
PrintedText(v) ==
    CASE Is(v, "Number") -> ToString(v.n)
      [] Is(v, "String") -> v.s
      [] Is(v, "Bool") -> (IF v.b THEN "True" ELSE "False")
      [] OTHER -> "None"

\* C18: Stringify of a String s returns s, the empty s included, of a Number its
\* decimal text, of a Bool True or False, of the absent value None; Stringify of
\* that result returns it again
C18_StringifyIsPrintedText ==
    (last.op = "Stringify" /\ last.args[1].t \in {"Number", "String", "Bool", "None"}) =>
        (last.k = "ok" /\ last.val = String(PrintedText(last.args[1])))

(***************************************************************************)
(* Order of execution: the statements of a Compound, the operands of a     *)
(* MethodCall.                                                             *)
(***************************************************************************)
MaxLen == 3

\* the statements a Compound is built from, by tag
StatementTags == {"print 1", "print 2", "g = 1", "g = 2", "1 / 0", "return 5"}

StatementOf(tag) ==
    CASE tag = "print 1" -> PrintArgs(<<NumericConst(1)>>)
      [] tag = "print 2" -> PrintArgs(<<NumericConst(2)>>)
      [] tag = "g = 1" -> Assignment("g", NumericConst(1))
      [] tag = "g = 2" -> Assignment("g", NumericConst(2))
      [] tag = "1 / 0" -> Div(NumericConst(1), NumericConst(0))
      [] tag = "return 5" -> Return(NumericConst(5))

\* what executing a statement built from prog (a Compound) or from arguments
\* assigning var (a MethodCall) leaves, r being the outcome of its Execute
Sequenced(op, name, var, prog, args, r) ==
    /\ last' = [NoLast EXCEPT !.op = op, !.name = name, !.cls = var,
                              !.prog = prog, !.args = args,
                              !.k = r.k, !.val = r.val, !.msg = r.msg,
                              !.errs = r.st.errs, !.rets = r.st.rets, !.out0 = out]
    /\ calls' = r.st.calls
    /\ heap' = r.st.heap
    /\ globals' = r.st.globals
    /\ out' = r.st.out
    /\ steps' = steps + 1
    /\ UNCHANGED <<classes, lexVars>>

\* a Compound of the statements prog, executed on the global closure
ExecCompound(prog) ==
    /\ AtPrelude
    /\ Sequenced("Compound", "", "", prog, <<>>,
                 Execute(Compound([i \in 1..Len(prog) |-> StatementOf(prog[i])]),
                         GlobalRef, StartState))

\* the method calls whose object and argument expressions are assignments:
\* (w = x).noret(w = 1), (w = x).Add(w = 1, w = 2) and x.Add(u = 1, u = 2);
\* var is the variable the n arguments write
OrderedCalls ==
    {[object |-> Assignment("w", Var("x")), method |-> "noret", var |-> "w", n |-> 1],
     [object |-> Assignment("w", Var("x")), method |-> "Add", var |-> "w", n |-> 2],
     [object |-> Var("x"), method |-> "Add", var |-> "u", n |-> 2]}

\* object.method(var = 1, ..., var = n)
ExecMethodCallOf(call) ==
    /\ AtPrelude
    /\ Sequenced("MethodCallOf", call.method, call.var, <<>>,
                 [i \in 1..call.n |-> Number(i)],
                 Execute(MethodCall(call.object, call.method,
                                    [i \in 1..call.n |-> Assignment(call.var, NumericConst(i))]),
                         GlobalRef, StartState))

NextOrder ==
    \/ \E prog \in SeqsUpTo(StatementTags, MaxLen) : ExecCompound(prog)
    \/ \E call \in OrderedCalls : ExecMethodCallOf(call)

SpecOrder == InitExpr /\ [][NextOrder]_vars

\* the index of the first statement of prog that throws; Len(prog) + 1 if none does
FirstThrow(prog) ==
    LET hits == {i \in 1..Len(prog) : prog[i] \in {"1 / 0", "return 5"}}
    IN IF hits = {} THEN Len(prog) + 1 ELSE CHOOSE i \in hits : \A j \in hits : i <= j

\* what the statements prog[1..n] write to the output, in order
RECURSIVE Written(_, _)
Written(prog, n) ==
    IF n = 0 THEN ""
    ELSE Written(prog, n - 1) \o (CASE prog[n] = "print 1" -> "1\n"
                                    [] prog[n] = "print 2" -> "2\n"
                                    [] OTHER -> "")

\* the value prog[1..n] leave in g: 0 stands for no assignment
RECURSIVE Assigned(_, _)
Assigned(prog, n) ==
    IF n = 0 THEN 0
    ELSE IF prog[n] = "g = 1" THEN 1
    ELSE IF prog[n] = "g = 2" THEN 2
    ELSE Assigned(prog, n - 1)

\* C19: a Compound executes its statements in construction order and returns the
\* absent value when all complete; when statement i throws the return signal or an
\* error, that leaves the Compound unchanged, statements i+1.. are not executed,
\* and what statements 1..i-1 wrote to the output and to the closure remains
C19_CompoundInOrder ==
    last.op = "Compound" =>
        LET prog == last.prog
            i == FirstThrow(prog)
            g == Assigned(prog, i - 1)
        IN /\ out = last.out0 \o Written(prog, i - 1)
           /\ IF g = 0 THEN "g" \notin DOMAIN globals
              ELSE "g" \in DOMAIN globals /\ globals["g"] = Number(g)
           /\ IF i > Len(prog) THEN last.k = "ok" /\ IsNone(last.val)
              ELSE /\ last.k = "throw"
                   /\ IF prog[i] = "1 / 0"
                      THEN last.msg = "Div by 0" /\ last.errs = <<"Div by 0">> /\ last.rets = <<>>
                      ELSE last.msg = "5" /\ last.rets = <<Number(5)>> /\ last.errs = <<>>

\* C19 witness: a Compound whose second statement threw, after a first one that
\* wrote and before a third one that would have written
C19_Witness ==
    /\ last.op = "Compound"
    /\ Len(last.prog) = 3
    /\ FirstThrow(last.prog) = 2
    /\ last.prog[1] \in {"print 1", "g = 1"}
    /\ last.prog[3] \in {"print 2", "g = 2"}
    /\ last.k = "throw"

\* C20: a MethodCall evaluates its object expression first and then its arguments
\* from left to right, so the variable the arguments assign holds, after the call,
\* the value of the last argument, also when the object expression assigns it too
C20_ObjectBeforeArguments ==
    (last.op = "MethodCallOf" /\ last.k = "ok") =>
        /\ last.cls \in DOMAIN globals
        /\ globals[last.cls] = last.args[Len(last.args)]

====
